---- MODULE Spec2Model ----
(***************************************************************************)
(* ReplaceEnvironmentdStatefulSet, the cloudtest upgrade action of         *)
(* misc/python/materialize/checks/cloudtest_actions.py, run by a           *)
(* sequential scenario runner against one Executor.                        *)
(*                                                                         *)
(* Python strings are sequences of one-character strings, so that parsing  *)
(* a tag is computed and not assumed.  An optional value (str | None, a    *)
(* local not yet bound, "no exception") is a sequence of length 0 or 1.    *)
(***************************************************************************)
EXTENDS Integers, Sequences, FiniteSets

VARIABLES
    resources,           \* mz.resources: sequence of [kind, tag, replace_calls]
    current_mz_version,  \* e.current_mz_version
    cargo_toml,          \* the version string of the build manifest
    new_tag,             \* self.new_tag of the action in hand
    new_version,         \* local of execute: <<>> until bound
    mz,                  \* local of execute: TRUE once e.cloudtest_application() was called
    stateful_set,        \* local of execute: the indices the filter kept
    exc,                 \* the exception execute ended with: <<>> or <<[type, args]>>
    trace,               \* the calls and assignments of the execute in hand, in order
    pc,                  \* where the runner stands
    executed,            \* number of execute calls the runner has made
    pending,             \* executes that returned and are not joined yet
    joined,              \* number of join calls that returned
    pre                  \* e and mz.resources as they were when execute was entered,
                         \* and whether it was entered again on the same action

vars == <<resources, current_mz_version, cargo_toml, new_tag, new_version, mz,
          stateful_set, exc, trace, pc, executed, pending, joined, pre>>

(***************************************************************************)
(* Bounds                                                                  *)
(***************************************************************************)
MaxResources == 3
MaxActions == 2

(***************************************************************************)
(* Optional values                                                         *)
(***************************************************************************)
None == <<>>
Some(x) == <<x>>

(***************************************************************************)
(* Strings and versions                                                    *)
(***************************************************************************)
Digits == {"0", "1", "2", "3", "4", "5", "6", "7", "8", "9"}

DigitVal(c) ==
    CASE c = "0" -> 0 [] c = "1" -> 1 [] c = "2" -> 2 [] c = "3" -> 3
      [] c = "4" -> 4 [] c = "5" -> 5 [] c = "6" -> 6 [] c = "7" -> 7
      [] c = "8" -> 8 [] c = "9" -> 9

IsNumber(s) == Len(s) > 0 /\ \A i \in 1..Len(s) : s[i] \in Digits

RECURSIVE NatOf(_)
NatOf(s) ==
    IF s = <<>> THEN 0
    ELSE NatOf(SubSeq(s, 1, Len(s) - 1)) * 10 + DigitVal(s[Len(s)])

\* The first position of c in s, 0 when there is none.
IndexOf(s, c) ==
    IF \E i \in 1..Len(s) : s[i] = c
    THEN CHOOSE i \in 1..Len(s) : s[i] = c /\ \A j \in 1..(i - 1) : s[j] # c
    ELSE 0

RECURSIVE Split(_, _)
Split(s, c) ==
    LET i == IndexOf(s, c) IN
    IF i = 0 THEN <<s>>
    ELSE <<SubSeq(s, 1, i - 1)>> \o Split(SubSeq(s, i + 1, Len(s)), c)

\* MAJOR.MINOR.PATCH[-PRERELEASE]; <<>> when s is not of that form.
ParseVersion(s) ==
    LET dash  == IndexOf(s, "-")
        core  == IF dash = 0 THEN s ELSE SubSeq(s, 1, dash - 1)
        rest  == IF dash = 0 THEN <<>> ELSE SubSeq(s, dash + 1, Len(s))
        parts == Split(core, ".")
    IN  IF /\ Len(parts) = 3
           /\ \A i \in 1..3 : IsNumber(parts[i])
           /\ (dash # 0 => Len(rest) > 0)
        THEN Some([major |-> NatOf(parts[1]), minor |-> NatOf(parts[2]),
                   patch |-> NatOf(parts[3]), prerelease |-> rest])
        ELSE None

\* MzVersion.parse_mz: the tag with its "v" prefix dropped.
parse_mz(s) ==
    ParseVersion(IF Len(s) > 0 /\ s[1] = "v" THEN Tail(s) ELSE s)

\* MzVersion.parse_cargo: the manifest's version, which has no prefix.
parse_cargo == ParseVersion(cargo_toml)

\* The order of versions: numeric parts first, a pre-release before its release.
VersionLess(a, b) ==
    \/ a.major < b.major
    \/ a.major = b.major /\ a.minor < b.minor
    \/ a.major = b.major /\ a.minor = b.minor /\ a.patch < b.patch
    \/ /\ a.major = b.major /\ a.minor = b.minor /\ a.patch = b.patch
       /\ a.prerelease # <<>> /\ b.prerelease = <<>>

S_0_9_0 == <<"0", ".", "9", ".", "0">>
S_0_10_0 == <<"0", ".", "1", "0", ".", "0">>
S_0_11_0_dev == <<"0", ".", "1", "1", ".", "0", "-", "d", "e", "v">>
S_not_a_version ==
    <<"n", "o", "t", "-", "a", "-", "v", "e", "r", "s", "i", "o", "n">>

\* The values an action's new_tag is drawn from.
NewTags ==
    { None, Some(<<>>), Some(<<"v">> \o S_0_9_0), Some(<<"v">> \o S_0_10_0),
      Some(S_0_10_0), Some(S_not_a_version) }

\* The versions the build manifest is drawn from.
CargoVersions == { S_0_11_0_dev, S_0_10_0 }

\* The versions the Executor starts with.
StartVersions == { ParseVersion(S_0_9_0)[1], ParseVersion(S_0_10_0)[1] }

(***************************************************************************)
(* Resources                                                               *)
(***************************************************************************)
EnvironmentdStatefulSet == "EnvironmentdStatefulSet"

\* The direct superclass of each resource class.
Base(kind) ==
    CASE kind = "EnvironmentdStatefulSet" -> "K8sStatefulSet"
      [] kind = "DerivedEnvironmentdStatefulSet" -> "EnvironmentdStatefulSet"
      [] kind = "PostgresStatefulSet" -> "K8sStatefulSet"
      [] kind = "K8sStatefulSet" -> "K8sResource"
      [] kind = "K8sResource" -> "object"
      [] OTHER -> "object"

RECURSIVE isinstance(_, _)
isinstance(kind, cls) ==
    \/ kind = cls
    \/ kind # "object" /\ isinstance(Base(kind), cls)

\* The classes the members of mz.resources are drawn from.
Kinds ==
    { "EnvironmentdStatefulSet", "DerivedEnvironmentdStatefulSet",
      "PostgresStatefulSet" }

ResourceLists == UNION { [1..n -> Kinds] : n \in 0..MaxResources }

StartTags == { None, Some(<<"v">> \o S_0_9_0) }

\* What replace() may raise.
ReplaceErrors == { "ApiException", "TimeoutError" }

(***************************************************************************)
(* The initial state: an application with its resources, an Executor, a    *)
(* build manifest, and a runner that has run nothing.                      *)
(***************************************************************************)
Init ==
    /\ \E kinds \in ResourceLists, t \in StartTags :
          resources = [i \in 1..Len(kinds) |->
                          [kind |-> kinds[i], tag |-> t, replace_calls |-> 0]]
    /\ current_mz_version \in StartVersions
    /\ cargo_toml \in CargoVersions
    /\ new_tag = None
    /\ new_version = None
    /\ mz = FALSE
    /\ stateful_set = <<>>
    /\ exc = None
    /\ trace = <<>>
    /\ pc = "idle"
    /\ executed = 0
    /\ pending = 0
    /\ joined = 0
    /\ pre = [version |-> current_mz_version, resources |-> resources,
              again |-> FALSE]

\* One entry of trace: what was called or assigned, on which member of
\* mz.resources (0 when on none), and what it raised.
Event(fn, on, raised) == [fn |-> fn, on |-> on, raised |-> raised]

Raise(type, args) == Some([type |-> type, args |-> args])

(***************************************************************************)
(* ReplaceEnvironmentdStatefulSet                                          *)
(***************************************************************************)
\* __init__
Construct(tag) ==
    /\ pc \in {"idle", "returned"}
    /\ executed < MaxActions
    /\ new_tag' = tag
    /\ pc' = "constructed"
    /\ UNCHANGED <<resources, current_mz_version, cargo_toml, new_version, mz,
                   stateful_set, exc, trace, executed, pending, joined, pre>>

\* The runner calls execute(e): on the action just constructed, or once more
\* on the action whose execute returned last.
Enter ==
    /\ \/ pc = "constructed"
       \/ pc = "returned" /\ executed < MaxActions
    /\ executed' = executed + 1
    /\ pre' = [version |-> current_mz_version, resources |-> resources,
               again |-> pc = "returned"]
    /\ new_version' = None
    /\ mz' = FALSE
    /\ stateful_set' = <<>>
    /\ exc' = None
    /\ trace' = <<>>
    /\ pc' = "entered"
    /\ UNCHANGED <<resources, current_mz_version, cargo_toml, new_tag, pending,
                   joined>>

\* The test `self.new_tag is not None` in place of the truth value.
IsNotNone(tag) == tag # None

\* Python's truth value of self.new_tag: None and "" are false.
Truthy(tag) == tag # None /\ tag[1] # <<>>

\* MzVersion.parse_mz(self.new_tag) if self.new_tag else MzVersion.parse_cargo()
Resolved(tag) == IF Truthy(tag) THEN parse_mz(tag[1]) ELSE parse_cargo

\* Resolve with line 34 moved ahead of the version's resolution.
ResolveAfterFetch ==
    /\ pc = "entered"
    /\ mz' = TRUE
    /\ LET fn == IF Truthy(new_tag) THEN "parse_mz" ELSE "parse_cargo"
           fetched == Append(trace, Event("cloudtest_application", 0, None))
       IN
       IF Resolved(new_tag) = None
       THEN /\ exc' = Raise("MalformedVersion", <<>>)
            /\ trace' = Append(fetched, Event(fn, 0, Some("MalformedVersion")))
            /\ pc' = "raised"
            /\ UNCHANGED new_version
       ELSE /\ new_version' = Resolved(new_tag)
            /\ trace' = fetched \o <<Event(fn, 0, None), Event("print", 0, None)>>
            /\ pc' = "resolved"
            /\ UNCHANGED exc
    /\ UNCHANGED <<resources, current_mz_version, cargo_toml, new_tag,
                   stateful_set, executed, pending, joined, pre>>

\* Lines 26-33: resolve the target version and print the transition.
Resolve ==
    /\ pc = "entered"
    /\ LET fn == IF Truthy(new_tag) THEN "parse_mz" ELSE "parse_cargo" IN
       IF Resolved(new_tag) = None
       THEN /\ exc' = Raise("MalformedVersion", <<>>)
            /\ trace' = Append(trace, Event(fn, 0, Some("MalformedVersion")))
            /\ pc' = "raised"
            /\ UNCHANGED new_version
       ELSE /\ new_version' = Resolved(new_tag)
            /\ trace' = trace \o <<Event(fn, 0, None), Event("print", 0, None)>>
            /\ pc' = "resolved"
            /\ UNCHANGED exc
    /\ UNCHANGED <<resources, current_mz_version, cargo_toml, new_tag, mz,
                   stateful_set, executed, pending, joined, pre>>

\* Line 34: mz = e.cloudtest_application()
Fetch ==
    /\ pc = "resolved"
    /\ mz' = TRUE
    /\ trace' = Append(trace, Event("cloudtest_application", 0, None))
    /\ pc' = "fetched"
    /\ UNCHANGED <<resources, current_mz_version, cargo_toml, new_tag,
                   new_version, stateful_set, exc, executed, pending, joined,
                   pre>>

\* The test isinstance(resource, EnvironmentdStatefulSet) in place of line 38.
IsInstanceTarget(resource) == isinstance(resource.kind, EnvironmentdStatefulSet)

\* Line 38: type(resource) == EnvironmentdStatefulSet
IsTarget(resource) == resource.kind = EnvironmentdStatefulSet

\* Lines 35-39: the positions, in order, of the resources the filter keeps.
RECURSIVE Filter(_, _)
Filter(rs, n) ==
    IF n = 0 THEN <<>>
    ELSE IF IsTarget(rs[n]) THEN Append(Filter(rs, n - 1), n)
    ELSE Filter(rs, n - 1)

\* The assertion len(stateful_set) >= 1 in place of line 40.
AssertAtLeastOne(matches) == Len(matches) >= 1

\* Line 40: assert len(stateful_set) == 1
AssertHolds(matches) == Len(matches) = 1

\* assert len(stateful_set) == 1, len(stateful_set)
AssertionRaisedWithCount(matches) == Raise("AssertionError", <<Len(matches)>>)

\* What line 40 raises when the assertion fails.
AssertionRaised(matches) == Raise("AssertionError", <<>>)

\* Lines 35-41: filter mz.resources and take the only match.
Locate ==
    /\ pc = "fetched"
    /\ stateful_set' = Filter(resources, Len(resources))
    /\ IF AssertHolds(stateful_set')
       THEN /\ pc' = "located"
            /\ trace' = Append(trace, Event("resources", 0, None))
            /\ UNCHANGED exc
       ELSE /\ pc' = "raised"
            /\ trace' = Append(trace,
                               Event("resources", 0, Some("AssertionError")))
            /\ exc' = AssertionRaised(stateful_set')
    /\ UNCHANGED <<resources, current_mz_version, cargo_toml, new_tag,
                   new_version, mz, executed, pending, joined, pre>>

\* SetTag that takes the stateful set out of mz.resources and appends it anew.
SetTagRecreating ==
    /\ pc = "located"
    /\ LET i == stateful_set[1]
           others == [k \in 1..(Len(resources) - 1) |->
                         IF k < i THEN resources[k] ELSE resources[k + 1]]
       IN  /\ resources' = Append(others, [resources[i] EXCEPT !.tag = new_tag])
           /\ stateful_set' = <<Len(resources)>>
           /\ trace' = Append(trace, Event("tag", Len(resources), None))
    /\ pc' = "tagged"
    /\ UNCHANGED <<current_mz_version, cargo_toml, new_tag, new_version, mz,
                   exc, executed, pending, joined, pre>>

\* SetTag with the assignment of line 43 left out.
SetTagSkipped ==
    /\ pc = "located"
    /\ pc' = "tagged"
    /\ UNCHANGED <<resources, current_mz_version, cargo_toml, new_tag,
                   new_version, mz, stateful_set, exc, trace, executed,
                   pending, joined, pre>>

\* Line 43: stateful_set.tag = self.new_tag
SetTag ==
    /\ pc = "located"
    /\ resources' = [resources EXCEPT ![stateful_set[1]].tag = new_tag]
    /\ trace' = Append(trace, Event("tag", stateful_set[1], None))
    /\ pc' = "tagged"
    /\ UNCHANGED <<current_mz_version, cargo_toml, new_tag, new_version, mz,
                   stateful_set, exc, executed, pending, joined, pre>>

\* Replace with the Executor's version assigned before replace() is called.
ReplaceRecordingFirst ==
    /\ pc = "tagged"
    /\ current_mz_version' = new_version[1]
    /\ resources' = [resources EXCEPT ![stateful_set[1]].replace_calls = @ + 1]
    /\ \/ /\ pc' = "replaced"
          /\ trace' = Append(trace, Event("replace", stateful_set[1], None))
          /\ UNCHANGED exc
       \/ \E err \in ReplaceErrors :
             /\ pc' = "raised"
             /\ trace' = Append(trace,
                                Event("replace", stateful_set[1], Some(err)))
             /\ exc' = Raise(err, <<>>)
    /\ UNCHANGED <<cargo_toml, new_tag, new_version, mz, stateful_set,
                   executed, pending, joined, pre>>

\* Replace that calls replace() once more when the first call raises.
ReplaceRetrying ==
    /\ pc = "tagged"
    /\ \/ /\ pc' = "replaced"
          /\ resources' =
                [resources EXCEPT ![stateful_set[1]].replace_calls = @ + 1]
          /\ trace' = Append(trace, Event("replace", stateful_set[1], None))
          /\ UNCHANGED exc
       \/ \E first \in ReplaceErrors :
             /\ pc' = "replaced"
             /\ resources' =
                   [resources EXCEPT ![stateful_set[1]].replace_calls = @ + 2]
             /\ trace' = trace \o
                   <<Event("replace", stateful_set[1], Some(first)),
                     Event("replace", stateful_set[1], None)>>
             /\ UNCHANGED exc
       \/ \E first \in ReplaceErrors, err \in ReplaceErrors :
             /\ pc' = "raised"
             /\ resources' =
                   [resources EXCEPT ![stateful_set[1]].replace_calls = @ + 2]
             /\ trace' = trace \o
                   <<Event("replace", stateful_set[1], Some(first)),
                     Event("replace", stateful_set[1], Some(err))>>
             /\ exc' = Raise(err, <<>>)
    /\ UNCHANGED <<current_mz_version, cargo_toml, new_tag, new_version, mz,
                   stateful_set, executed, pending, joined, pre>>

\* Line 44: stateful_set.replace(), which returns or raises.
Replace ==
    /\ pc = "tagged"
    /\ resources' = [resources EXCEPT ![stateful_set[1]].replace_calls = @ + 1]
    /\ \/ /\ pc' = "replaced"
          /\ trace' = Append(trace, Event("replace", stateful_set[1], None))
          /\ UNCHANGED exc
       \/ \E err \in ReplaceErrors :
             /\ pc' = "raised"
             /\ trace' = Append(trace,
                                Event("replace", stateful_set[1], Some(err)))
             /\ exc' = Raise(err, <<>>)
    /\ UNCHANGED <<current_mz_version, cargo_toml, new_tag, new_version, mz,
                   stateful_set, executed, pending, joined, pre>>

\* Record with the version of the build manifest assigned.
RecordCargo ==
    /\ pc = "replaced"
    /\ current_mz_version' = parse_cargo[1]
    /\ trace' = Append(trace, Event("current_mz_version", 0, None))
    /\ pc' = "returned"
    /\ pending' = pending + 1
    /\ UNCHANGED <<resources, cargo_toml, new_tag, new_version, mz,
                   stateful_set, exc, executed, joined, pre>>

\* Record that only ever advances the Executor's version.
RecordNewest ==
    /\ pc = "replaced"
    /\ current_mz_version' =
          IF VersionLess(new_version[1], current_mz_version)
          THEN current_mz_version ELSE new_version[1]
    /\ trace' = Append(trace, Event("current_mz_version", 0, None))
    /\ pc' = "returned"
    /\ pending' = pending + 1
    /\ UNCHANGED <<resources, cargo_toml, new_tag, new_version, mz,
                   stateful_set, exc, executed, joined, pre>>

\* Record that also clears self.new_tag once the tag has been applied.
RecordClearingTag ==
    /\ pc = "replaced"
    /\ current_mz_version' = new_version[1]
    /\ new_tag' = None
    /\ trace' = Append(trace, Event("current_mz_version", 0, None))
    /\ pc' = "returned"
    /\ pending' = pending + 1
    /\ UNCHANGED <<resources, cargo_toml, new_version, mz, stateful_set, exc,
                   executed, joined, pre>>

\* Line 45: e.current_mz_version = new_version, and execute returns.
Record ==
    /\ pc = "replaced"
    /\ current_mz_version' = new_version[1]
    /\ trace' = Append(trace, Event("current_mz_version", 0, None))
    /\ pc' = "returned"
    /\ pending' = pending + 1
    /\ UNCHANGED <<resources, cargo_toml, new_tag, new_version, mz,
                   stateful_set, exc, executed, joined, pre>>

\* Join that calls replace() on the stateful set again.
JoinReplacing ==
    /\ pc = "returned"
    /\ pending > 0
    /\ pending' = pending - 1
    /\ joined' = joined + 1
    /\ resources' = [resources EXCEPT ![stateful_set[1]].replace_calls = @ + 1]
    /\ UNCHANGED <<current_mz_version, cargo_toml, new_tag, new_version, mz,
                   stateful_set, exc, trace, pc, executed, pre>>

\* Lines 47-49: join(e) of an action whose execute has returned.
Join ==
    /\ pc = "returned"
    /\ pending > 0
    /\ pending' = pending - 1
    /\ joined' = joined + 1
    /\ UNCHANGED <<resources, current_mz_version, cargo_toml, new_tag,
                   new_version, mz, stateful_set, exc, trace, pc, executed,
                   pre>>

Next ==
    \/ \E tag \in NewTags : Construct(tag)
    \/ Enter
    \/ Resolve
    \/ Fetch
    \/ Locate
    \/ SetTag
    \/ Replace
    \/ Record
    \/ Join

Spec == Init /\ [][Next]_vars

(***************************************************************************)
(* What the claims speak of                                                *)
(***************************************************************************)
\* The members of rs whose class is exactly EnvironmentdStatefulSet.
StatefulSets(rs) ==
    { i \in 1..Len(rs) : rs[i].kind = "EnvironmentdStatefulSet" }

\* The only such member, when there is exactly one.
TheStatefulSet == CHOOSE i \in StatefulSets(resources) : TRUE

\* The version a tag names: none for None and for a string that is no version.
Denoted(tag) == IF tag = None THEN None ELSE parse_mz(tag[1])

\* The version the spec resolves a tag to (4.1): the parsed tag when it is
\* present and non-empty, the build manifest's version otherwise.
Target(tag) ==
    IF tag # None /\ tag[1] # <<>> THEN parse_mz(tag[1])
    ELSE ParseVersion(cargo_toml)

\* execute has returned without raising, and nothing was called since.
Returned == pc = "returned"

\* The exception execute ended with is of this type.
RaisedType(type) == pc = "raised" /\ exc # None /\ exc[1].type = type

RaisedByReplace == \E err \in ReplaceErrors : RaisedType(err)

\* C1 as stated: after a successful execute on a Resource Set with exactly one
\* EnvironmentdStatefulSet, current_mz_version is the resolved target version
\* and the stateful set's tag denotes that same version, tag given or absent.
C1_TagDenotesResolvedVersion ==
    (Returned /\ Cardinality(StatefulSets(resources)) = 1) =>
        /\ Some(current_mz_version) = new_version
        /\ Denoted(resources[TheStatefulSet].tag) = new_version

\* C1 amended: after a successful execute, current_mz_version is the resolved
\* target version and the stateful set's tag is the action's new_tag itself:
\* a non-empty tag denotes the resolved version, an absent or empty one leaves
\* the tag None or "" while the version is the build manifest's.
C1_VersionRecordedTagIsNewTag ==
    (Returned /\ Cardinality(StatefulSets(resources)) = 1) =>
        /\ Some(current_mz_version) = new_version
        /\ resources[TheStatefulSet].tag = new_tag
        /\ (new_tag # None /\ new_tag[1] # <<>>) =>
               /\ Denoted(resources[TheStatefulSet].tag) = Some(current_mz_version)
               /\ Some(current_mz_version) = parse_mz(new_tag[1])
        /\ (new_tag = None \/ new_tag[1] = <<>>) =>
               /\ Denoted(resources[TheStatefulSet].tag) = None
               /\ Some(current_mz_version) = ParseVersion(cargo_toml)

\* Both cases of C1 amended: a tag that names a version other than the
\* manifest's and the one before, and no tag at all.
C1_Witness ==
    /\ Returned
    /\ Cardinality(StatefulSets(resources)) = 1
    /\ new_tag = Some(<<"v">> \o S_0_10_0)
    /\ cargo_toml = S_0_11_0_dev
    /\ pre.version = ParseVersion(S_0_9_0)[1]
    /\ current_mz_version = ParseVersion(S_0_10_0)[1]
    /\ resources[TheStatefulSet].tag # pre.resources[TheStatefulSet].tag

\* C2: current_mz_version is assigned only by the step that follows a replace()
\* that returned, and when replace() raises it holds its value from before.
C2_RecordedOnlyAfterReplace ==
    /\ [][current_mz_version' # current_mz_version =>
             /\ pc = "replaced" /\ pc' = "returned"
             /\ trace[Len(trace)] = Event("replace", TheStatefulSet, None)]_vars
    /\ [](pc \in {"entered", "resolved", "fetched", "located", "tagged",
                  "replaced", "raised"} => current_mz_version = pre.version)

\* replace() raised while the target version differed from the current one.
C2_Witness ==
    /\ RaisedByReplace
    /\ new_version # Some(current_mz_version)
    /\ current_mz_version = pre.version

\* C3 as stated: no step ever makes current_mz_version older.
C3_NeverDecreases ==
    [][~VersionLess(current_mz_version', current_mz_version)]_vars

\* C3 amended: current_mz_version changes only when an execute returns, and
\* then becomes that action's resolved target, so it is older than before
\* exactly when the target is older than the version before.
C3_BecomesTarget ==
    /\ [][current_mz_version' # current_mz_version => pc' = "returned"]_vars
    /\ [](Returned =>
            /\ Some(current_mz_version) = Target(new_tag)
            /\ VersionLess(current_mz_version, pre.version)
                  <=> VersionLess(Target(new_tag)[1], pre.version))

\* An execute returned and left the Executor with an older version.
C3_Witness ==
    /\ Returned
    /\ VersionLess(current_mz_version, pre.version)

\* The steps of execute past the resolution of the version.
AfterResolve ==
    pc \in {"resolved", "fetched", "located", "tagged", "replaced", "returned",
            "raised"}

\* trace holds a call or assignment of this name.
Called(fn) == \E k \in 1..Len(trace) : trace[k].fn = fn

\* C4: with zero or several EnvironmentdStatefulSet resources execute does not
\* get past the lookup, which raises; no tag is changed, replace() is called
\* on nothing and current_mz_version is unchanged.
C4_NoMutationWithoutUniqueStatefulSet ==
    Cardinality(StatefulSets(pre.resources)) # 1 =>
        /\ pc \notin {"located", "tagged", "replaced", "returned"}
        /\ Called("resources") => pc = "raised" /\ exc # None
        /\ resources = pre.resources
        /\ \A i \in 1..Len(resources) : resources[i].replace_calls = 0
        /\ ~Called("tag") /\ ~Called("replace")
        /\ ~Called("current_mz_version")
        /\ current_mz_version = pre.version

\* execute raised at the lookup over a set with two or more stateful sets,
\* for a target version that is not the current one.
C4_Witness ==
    /\ pc = "raised"
    /\ Called("resources")
    /\ Cardinality(StatefulSets(resources)) >= 2
    /\ new_version # Some(current_mz_version)

MalformedAndUntouched ==
    /\ RaisedType("MalformedVersion")
    /\ new_version = None
    /\ ~mz /\ ~Called("cloudtest_application")
    /\ stateful_set = <<>> /\ ~Called("resources")
    /\ resources = pre.resources /\ ~Called("tag") /\ ~Called("replace")
    /\ current_mz_version = pre.version /\ ~Called("current_mz_version")

\* C6 as stated: every explicit tag that is not a valid version string.
C6_MalformedExplicitTag ==
    (AfterResolve /\ new_tag # None /\ parse_mz(new_tag[1]) = None) =>
        MalformedAndUntouched

\* C6 amended: every non-empty explicit tag that is not a valid version
\* string (an empty tag is resolved from the build manifest instead).
C6_MalformedNonEmptyTag ==
    (AfterResolve /\ new_tag # None /\ new_tag[1] # <<>>
                  /\ parse_mz(new_tag[1]) = None) =>
        MalformedAndUntouched

\* execute was given "not-a-version" against a set that has its stateful set.
C6_Witness ==
    /\ RaisedType("MalformedVersion")
    /\ new_tag = Some(S_not_a_version)
    /\ Cardinality(StatefulSets(resources)) = 1

\* What C7 says of a tag that counts as provided / as absent.
FromTag ==
    /\ ~Called("parse_cargo")
    /\ IF parse_mz(new_tag[1]) = None
       THEN RaisedType("MalformedVersion") /\ new_version = None
       ELSE new_version = parse_mz(new_tag[1])

FromManifest ==
    /\ Called("parse_cargo") /\ ~Called("parse_mz")
    /\ new_version = ParseVersion(cargo_toml)

\* C7 as stated: a tag that is provided (not None) is resolved from the tag,
\* the manifest is used only when the tag is absent.
C7_ExplicitTagTakesPrecedence ==
    AfterResolve =>
        /\ new_tag # None => FromTag
        /\ Called("parse_cargo") => new_tag = None
        /\ new_tag = None => FromManifest

\* C7 amended: a provided, non-empty tag is resolved from the tag; the manifest
\* is used exactly when the tag is absent or empty, and then the resolved
\* version is the manifest's.
C7_NonEmptyTagTakesPrecedence ==
    AfterResolve =>
        /\ (new_tag # None /\ new_tag[1] # <<>>) => FromTag
        /\ Called("parse_cargo") => (new_tag = None \/ new_tag[1] = <<>>)
        /\ (new_tag = None \/ new_tag[1] = <<>>) => FromManifest

\* A tag was given that names another version than the manifest.
C7_Witness ==
    /\ Returned
    /\ new_tag = Some(<<"v">> \o S_0_9_0)
    /\ cargo_toml = S_0_11_0_dev
    /\ new_version = ParseVersion(S_0_9_0)

\* C8: the lookup counts exactly the resources of class
\* EnvironmentdStatefulSet; with exactly one of them, it is the one tagged and
\* replaced, and a resource of any other class, a subclass included, is never
\* counted, tagged or replaced.
C8_ExactKindLookup ==
    /\ \A i \in 1..Len(resources) :
          resources[i].kind # "EnvironmentdStatefulSet" =>
             /\ resources[i] = pre.resources[i]
             /\ resources[i].replace_calls = 0
             /\ \A k \in 1..Len(trace) : trace[k].on # i
    /\ Called("resources") =>
          /\ Len(stateful_set) = Cardinality(StatefulSets(resources))
          /\ \A k \in 1..Len(stateful_set) :
                stateful_set[k] \in StatefulSets(resources)
    /\ (Called("resources") /\ Cardinality(StatefulSets(resources)) = 1) =>
          /\ pc \in {"located", "tagged", "replaced", "returned", "raised",
                     "constructed"}
          /\ stateful_set = <<TheStatefulSet>>
    /\ Returned =>
          /\ resources[TheStatefulSet].tag = new_tag
          /\ resources[TheStatefulSet].replace_calls =
                pre.resources[TheStatefulSet].replace_calls + 1
          /\ \E k \in 1..Len(trace) : trace[k] = Event("tag", TheStatefulSet, None)
          /\ \E k \in 1..Len(trace) :
                trace[k] = Event("replace", TheStatefulSet, None)

\* execute returned on a set that holds a subclass instance, the stateful set
\* and a sibling class, in this order.
C8_Witness ==
    /\ Returned
    /\ Len(resources) = 3
    /\ resources[1].kind = "DerivedEnvironmentdStatefulSet"
    /\ resources[2].kind = "EnvironmentdStatefulSet"
    /\ resources[3].kind = "PostgresStatefulSet"
    /\ resources[2].tag # pre.resources[2].tag

\* C9: a join after a successful execute is always possible, raises nothing
\* and changes neither current_mz_version nor any resource; and once execute
\* has returned, replace() has been called and has returned.
C9_JoinIsNoOp ==
    /\ [][joined' # joined =>
             /\ pc = "returned" /\ pc' = "returned"
             /\ joined' = joined + 1
             /\ exc' = None
             /\ current_mz_version' = current_mz_version
             /\ resources' = resources]_vars
    /\ []((Returned /\ pending > 0) => ENABLED Join)
    /\ [](Returned =>
             /\ trace[Len(trace) - 1] = Event("replace", TheStatefulSet, None)
             /\ resources[TheStatefulSet].replace_calls =
                   pre.resources[TheStatefulSet].replace_calls + 1)

\* A join has returned while another execute is still to be joined.
C9_Witness ==
    /\ joined = 1
    /\ pending = 1
    /\ executed = 2
    /\ Returned

IsReplaceCall(ev) == ev.fn = "replace"

ReplaceCalls == SelectSeq(trace, IsReplaceCall)

\* C10: an execute calls replace() at most once: once when it returns, never
\* when the version or the lookup fails; and what replace() raises is what
\* execute ends with.
C10_NoRetry ==
    /\ Len(ReplaceCalls) <= 1
    /\ \A i \in 1..Len(resources) :
          resources[i].replace_calls - pre.resources[i].replace_calls =
             Cardinality({k \in 1..Len(ReplaceCalls) : ReplaceCalls[k].on = i})
    /\ Returned => Len(ReplaceCalls) = 1 /\ ReplaceCalls[1].raised = None
    /\ (RaisedType("MalformedVersion") \/ RaisedType("AssertionError")) =>
          Len(ReplaceCalls) = 0
    /\ (Len(ReplaceCalls) >= 1 /\ ReplaceCalls[1].raised # None) =>
          /\ pc = "raised"
          /\ exc = Raise(ReplaceCalls[1].raised[1], <<>>)

\* replace() raised TimeoutError and execute ended with it.
C10_Witness ==
    /\ RaisedType("TimeoutError")
    /\ Len(ReplaceCalls) = 1
    /\ ReplaceCalls[1].raised = Some("TimeoutError")

\* The steps of a successful execute, in the order of lines 26-45.
Steps ==
    <<"resolve", "print", "cloudtest_application", "resources", "tag",
      "replace", "current_mz_version">>

StepName(fn) == IF fn \in {"parse_mz", "parse_cargo"} THEN "resolve" ELSE fn

\* C11: every execute takes its steps in the order resolve, fetch, locate, set
\* the tag, replace(), record, none skipped or repeated; a successful one
\* takes them all, and the tag already has its new value when replace() is
\* called.
C11_FixedStepOrder ==
    /\ Len(trace) <= Len(Steps)
    /\ \A k \in 1..Len(trace) : StepName(trace[k].fn) = Steps[k]
    /\ \A k \in 1..Len(trace) :
          trace[k].fn = "replace" =>
             trace[k - 1] = Event("tag", trace[k].on, None)
    /\ pc = "tagged" =>
          /\ trace[Len(trace)] = Event("tag", TheStatefulSet, None)
          /\ resources[TheStatefulSet].tag = new_tag
    /\ Returned =>
          /\ Len(trace) = Len(Steps)
          /\ \A k \in 1..Len(trace) : trace[k].raised = None

\* replace() is about to be called on a stateful set whose tag was changed.
C11_Witness ==
    /\ pc = "tagged"
    /\ Cardinality(StatefulSets(resources)) = 1
    /\ resources[TheStatefulSet].tag # pre.resources[TheStatefulSet].tag
    /\ resources[TheStatefulSet].tag = Some(<<"v">> \o S_0_10_0)

\* C12: execute leaves the membership and order of mz.resources as they were
\* and changes at most one member, the single matched EnvironmentdStatefulSet:
\* every other resource keeps its tag and gets no replace() call, whether
\* execute returns or raises.
C12_AtMostOneMemberChanged ==
    /\ Len(resources) = Len(pre.resources)
    /\ \A i \in 1..Len(resources) : resources[i].kind = pre.resources[i].kind
    /\ \A i \in 1..Len(resources) :
          resources[i] # pre.resources[i] =>
             /\ StatefulSets(pre.resources) = {i}
             /\ resources[i].kind = "EnvironmentdStatefulSet"
    /\ \A k \in 1..Len(trace) :
          trace[k].on # 0 => StatefulSets(pre.resources) = {trace[k].on}

\* replace() raised on the second of three resources, whose tag was changed.
C12_Witness ==
    /\ RaisedByReplace
    /\ Len(resources) = 3
    /\ StatefulSets(resources) = {2}
    /\ resources[2].tag # pre.resources[2].tag
    /\ resources[1] = pre.resources[1]
    /\ resources[3] = pre.resources[3]

\* C13: when execute raises, whatever raised, current_mz_version and the tag
\* of every resource, the matched stateful set included, are what they were
\* when execute was entered.
C13_FailureLeavesStateAsBefore ==
    pc = "raised" =>
        /\ current_mz_version = pre.version
        /\ \A i \in 1..Len(resources) :
              resources[i].tag = pre.resources[i].tag

\* C14: neither execute nor join changes the action's new_tag, and an execute
\* entered again on the same action, against the same Executor and resources,
\* leaves current_mz_version and every tag as the first execution left them.
C14_StatelessAction ==
    /\ [][new_tag' # new_tag =>
             pc \in {"idle", "returned"} /\ pc' = "constructed"]_vars
    /\ [](pre.again =>
             /\ current_mz_version = pre.version
             /\ \A i \in 1..Len(resources) :
                   resources[i].tag = pre.resources[i].tag
             /\ pc \in {"located", "tagged", "replaced", "returned"} =>
                   /\ resources[TheStatefulSet].tag = new_tag
                   /\ Some(current_mz_version) = new_version)

\* The same action was executed twice, both times to the end, with a tag that
\* names neither the manifest's version nor the tag the stateful set had.
C14_Witness ==
    /\ Returned
    /\ pre.again
    /\ new_tag = Some(<<"v">> \o S_0_10_0)
    /\ cargo_toml = S_0_11_0_dev
    /\ resources[TheStatefulSet].replace_calls = 2
    /\ resources[TheStatefulSet].tag = new_tag
    /\ current_mz_version = ParseVersion(S_0_10_0)[1]

====
